---- MODULE Spec2Model ----
(***************************************************************************)
(* Model of the document pipeline of the NestJS service:                   *)
(*   DocumentsController / DocumentsService (upload, analyze, get),        *)
(*   S3Service.uploadFile, TextExtractionService.extractText,              *)
(*   OpenRouterService.analyzeDocument (prompt, call, response parsing)    *)
(* and the Document table behind prisma.document.                          *)
(*                                                                         *)
(* Every HTTP request is one process.  A request advances one awaited      *)
(* external call at a time, so requests interleave at their awaits.        *)
(***************************************************************************)
EXTENDS Integers, Sequences, FiniteSets, TLC

(***************************************************************************)
(* Bounds of the model.                                                    *)
(***************************************************************************)
\* Requests that arrive in a run.
MaxReq == 3
\* Uploads that pass validation in a run.
MaxUploads == 2

\* The handlers: two requests can be in progress at a time, so that every
\* await of one request can fall between any two steps of another.
Reqs == {1, 2}

(***************************************************************************)
(* JavaScript values.  Every value is a record [t, v]; t is the type tag.  *)
(* Numbers are named by their decimal text, "Infinity" and "-0" included.  *)
(* An object is the sequence of its own properties in insertion order.     *)
(***************************************************************************)
Undefined == [t |-> "undefined", v |-> "undefined"]
JsNull == [t |-> "null", v |-> "null"]
JsTrue == [t |-> "boolean", v |-> "true"]
JsFalse == [t |-> "boolean", v |-> "false"]
Str(s) == [t |-> "string", v |-> s]
Num(n) == [t |-> "number", v |-> n]
Obj(props) == [t |-> "object", v |-> props]
Arr(elems) == [t |-> "array", v |-> elems]
Prop(k, x) == [k |-> k, x |-> x]

\* JavaScript ToBoolean, as used by `a || b` and `!a`.
Truthy(x) ==
  CASE x.t = "undefined" -> FALSE
    [] x.t = "null" -> FALSE
    [] x.t = "boolean" -> x.v = "true"
    [] x.t = "string" -> x.v # ""
    [] x.t = "number" -> x.v \notin {"0", "-0", "NaN"}
    [] OTHER -> TRUE

\* a || b
OrElse(a, b) == IF Truthy(a) THEN a ELSE b

\* Index of the own property k of an object's property list, 0 if none.
PropIndex(props, k) ==
  IF \E i \in 1..Len(props) : props[i].k = k
  THEN CHOOSE i \in 1..Len(props) : props[i].k = k
  ELSE 0

\* parsed.k : the value of property k, undefined when the object has none.
GetProp(o, k) ==
  IF o.t = "object" /\ PropIndex(o.v, k) # 0
  THEN o.v[PropIndex(o.v, k)].x
  ELSE Undefined

\* Defining property k while parsing: a repeated key keeps its place and
\* takes the later value.
SetProp(props, k, x) ==
  IF PropIndex(props, k) = 0
  THEN Append(props, Prop(k, x))
  ELSE [props EXCEPT ![PropIndex(props, k)] = Prop(k, x)]

(***************************************************************************)
(* JSON text is a sequence of tokens [k, s]: punctuation, string literals, *)
(* number literals, the literals null/true/false, and words of prose that  *)
(* are not JSON at all.                                                    *)
(***************************************************************************)
P(s) == [k |-> "punct", s |-> s]
S(s) == [k |-> "str", s |-> s]
N(s) == [k |-> "num", s |-> s]
L(s) == [k |-> "lit", s |-> s]
W(s) == [k |-> "word", s |-> s]

\* The double a number literal denotes: a literal beyond the range of a
\* double reads as Infinity, and -0 is a number of its own.
NumberOf(s) ==
  CASE s = "1e999" -> "Infinity"
    [] s = "-1e999" -> "-Infinity"
    [] OTHER -> s

\* The JSON text of a number: non-finite numbers are written null, and the
\* sign of zero is dropped.
NumberText(n) ==
  CASE n \in {"Infinity", "-Infinity", "NaN"} -> L("null")
    [] n = "-0" -> N("0")
    [] OTHER -> N(n)

ParseFail == [ok |-> FALSE, val |-> Undefined, nxt |-> 0]
ParseOk(x, n) == [ok |-> TRUE, val |-> x, nxt |-> n]

RECURSIVE ParseValue(_, _)
RECURSIVE ParseMembers(_, _, _)
RECURSIVE ParseElements(_, _, _)

\* After "{" or after ",": a member "key" : value, then "," or "}".
ParseMembers(toks, i, acc) ==
  IF i + 1 > Len(toks) \/ toks[i].k # "str" \/ toks[i + 1] # P(":")
  THEN ParseFail
  ELSE LET r == ParseValue(toks, i + 2) IN
       IF ~r.ok \/ r.nxt > Len(toks) THEN ParseFail
       ELSE LET acc2 == SetProp(acc, toks[i].s, r.val) IN
            CASE toks[r.nxt] = P("}") -> ParseOk(Obj(acc2), r.nxt + 1)
              [] toks[r.nxt] = P(",") -> ParseMembers(toks, r.nxt + 1, acc2)
              [] OTHER -> ParseFail

\* After "[" or after ",": an element, then "," or "]".
ParseElements(toks, i, acc) ==
  LET r == ParseValue(toks, i) IN
  IF ~r.ok \/ r.nxt > Len(toks) THEN ParseFail
  ELSE LET acc2 == Append(acc, r.val) IN
       CASE toks[r.nxt] = P("]") -> ParseOk(Arr(acc2), r.nxt + 1)
         [] toks[r.nxt] = P(",") -> ParseElements(toks, r.nxt + 1, acc2)
         [] OTHER -> ParseFail

ParseValue(toks, i) ==
  IF i > Len(toks) THEN ParseFail
  ELSE LET tk == toks[i] IN
       CASE tk.k = "str" -> ParseOk(Str(tk.s), i + 1)
         [] tk.k = "num" -> ParseOk(Num(NumberOf(tk.s)), i + 1)
         [] tk.k = "lit" ->
              ParseOk(CASE tk.s = "true" -> JsTrue
                        [] tk.s = "false" -> JsFalse
                        [] OTHER -> JsNull, i + 1)
         [] tk = P("{") ->
              IF i + 1 <= Len(toks) /\ toks[i + 1] = P("}")
              THEN ParseOk(Obj(<<>>), i + 2)
              ELSE ParseMembers(toks, i + 1, <<>>)
         [] tk = P("[") ->
              IF i + 1 <= Len(toks) /\ toks[i + 1] = P("]")
              THEN ParseOk(Arr(<<>>), i + 2)
              ELSE ParseElements(toks, i + 1, <<>>)
         [] OTHER -> ParseFail

\* JSON.parse: the whole text must be one value; otherwise it throws.
JSONParse(toks) ==
  LET r == ParseValue(toks, 1) IN
  IF r.ok /\ r.nxt = Len(toks) + 1 THEN r ELSE ParseFail

RECURSIVE JSONStringify(_)
RECURSIVE StringifyProps(_, _, _)
RECURSIVE StringifyElems(_, _)

\* Members from index i on; first tells whether a member was written yet.
\* A property whose value is undefined is left out.
StringifyProps(props, i, first) ==
  IF i > Len(props) THEN <<>>
  ELSE IF props[i].x.t = "undefined" THEN StringifyProps(props, i + 1, first)
  ELSE (IF first THEN <<>> ELSE <<P(",")>>)
       \o <<S(props[i].k), P(":")>> \o JSONStringify(props[i].x)
       \o StringifyProps(props, i + 1, FALSE)

\* Elements from index i on; an undefined element is written null.
StringifyElems(elems, i) ==
  IF i > Len(elems) THEN <<>>
  ELSE (IF i = 1 THEN <<>> ELSE <<P(",")>>)
       \o (IF elems[i].t = "undefined" THEN <<L("null")>>
           ELSE JSONStringify(elems[i]))
       \o StringifyElems(elems, i + 1)

\* JSON.stringify of a defined value.
JSONStringify(x) ==
  CASE x.t = "string" -> <<S(x.v)>>
    [] x.t = "number" -> <<NumberText(x.v)>>
    [] x.t = "boolean" -> <<L(x.v)>>
    [] x.t = "null" -> <<L("null")>>
    [] x.t = "object" -> <<P("{")>> \o StringifyProps(x.v, 1, TRUE) \o <<P("}")>>
    [] x.t = "array" -> <<P("[")>> \o StringifyElems(x.v, 1) \o <<P("]")>>
    [] OTHER -> <<>>

(***************************************************************************)
(* Errors and responses.                                                   *)
(***************************************************************************)
Err(name, message) == [name |-> name, message |-> message]
NoErr == Err("", "")

\* The HTTP status the framework gives an exception that leaves a route.
StatusOf(e) ==
  CASE e.name = "BadRequestException" -> 400
    [] e.name = "NotFoundException" -> 404
    [] OTHER -> 500

NoBody == [none |-> TRUE]
Pending == [state |-> "pending", err |-> NoErr, body |-> NoBody]
Rejected(e) == [state |-> "error", err |-> e, body |-> NoBody]
Resolved(b) == [state |-> "ok", err |-> NoErr, body |-> b]

(***************************************************************************)
(* Uploaded files.  A buffer is named by what the parsing library makes of *)
(* it: "corrupt" makes it throw, "blank" yields no text, "text" yields     *)
(* text.                                                                   *)
(***************************************************************************)
PDF == "application/pdf"
DOCX == "application/vnd.openxmlformats-officedocument.wordprocessingml.document"
PNG == "image/png"

MaxSize == 5 * 1024 * 1024

Sizes == {1024, MaxSize, MaxSize + 1}
Mimes == {PDF, DOCX, PNG}
Buffers == {"corrupt", "blank", "text"}

NoFile == [present |-> FALSE, originalname |-> "", mimetype |-> "",
           size |-> 0, buffer |-> "blank"]
\* Every size with every type; the buffers that do not parse to a text
\* come with the small size and the types that have a parser only.
Files == {f \in [present : {TRUE}, originalname : {"test.pdf"},
                 mimetype : Mimes, size : Sizes, buffer : Buffers] :
            f.buffer # "text" => (f.size = 1024 /\ f.mimetype \in {PDF, DOCX})}

\* A string held as its characters; '' is Chars(<<>>).
Chars(s) == [t |-> "chars", v |-> s]
IsFalsyText(x) == x.t = "null" \/ x.t = "undefined" \/ x.v = <<>>

(***************************************************************************)
(* TextExtractionService.                                                  *)
(***************************************************************************)
\* Buffers of long documents, named by the number of characters of their
\* text: one less than, as many as, and one more than the prompt takes.
LongBuffers == {"7999 characters", "8000 characters", "8001 characters"}
LengthOf(buffer) ==
  CASE buffer = "7999 characters" -> 7999
    [] buffer = "8000 characters" -> 8000
    [] OTHER -> 8001

\* A text of n characters; the character at a place tells the place's last
\* digit, so that no shifted or shortened copy of a text equals it.
Digits == <<"0", "1", "2", "3", "4", "5", "6", "7", "8", "9">>
TextOfLength(n) == [i \in 1..n |-> Digits[(i % 10) + 1]]

\* What the parsing library (pdf-parse, mammoth) makes of a buffer: it
\* throws, or yields an object whose text may be missing.
LibraryParse(buffer) ==
  CASE buffer = "corrupt" -> [ok |-> FALSE, text |-> Undefined]
    [] buffer = "blank" -> [ok |-> TRUE, text |-> Undefined]
    [] buffer \in LongBuffers ->
         [ok |-> TRUE, text |-> Chars(TextOfLength(LengthOf(buffer)))]
    [] OTHER -> [ok |-> TRUE, text |-> Chars(<<"h", "i">>)]

Extracted(text) == [ok |-> TRUE, text |-> text, err |-> NoErr]
ExtractFailed(e) == [ok |-> FALSE, text |-> Chars(<<>>), err |-> e]

\* The extractor with a slip: a PDF without text is an error.
extractTextFromPDF_NoTextFails(buffer) ==
  LET data == LibraryParse(buffer) IN
  IF data.ok /\ ~IsFalsyText(data.text)
  THEN Extracted(data.text)
  ELSE ExtractFailed(Err("BadRequestException",
                         "Failed to extract text from PDF: Error: no text"))

extractTextFromPDF(buffer) ==
  LET data == LibraryParse(buffer) IN
  IF data.ok
  THEN Extracted(IF IsFalsyText(data.text) THEN Chars(<<>>) ELSE data.text)
  ELSE ExtractFailed(Err("BadRequestException",
                         "Failed to extract text from PDF: Error: bad file"))

extractTextFromDOCX(buffer) ==
  LET result == LibraryParse(buffer) IN
  IF result.ok
  THEN Extracted(IF IsFalsyText(result.text) THEN Chars(<<>>) ELSE result.text)
  ELSE ExtractFailed(Err("BadRequestException",
                         "Failed to extract text from DOCX: Error: bad file"))

extractText(buffer, mimeType) ==
  CASE mimeType = PDF -> extractTextFromPDF(buffer)
    [] mimeType = DOCX -> extractTextFromDOCX(buffer)
    [] OTHER -> ExtractFailed(Err("BadRequestException",
                                  "Only PDF and DOCX files are supported"))

(***************************************************************************)
(* OpenRouterService.                                                      *)
(***************************************************************************)
MaxPromptChars == 8000

Min(a, b) == IF a < b THEN a ELSE b

\* The cut with a slip: the last 8,000 characters instead of the first.
buildAnalysisPrompt_Tail(text) ==
  SubSeq(text, Len(text) - Min(Len(text), MaxPromptChars) + 1, Len(text))

\* text.substring(0, 8000), the document text embedded in the prompt.
buildAnalysisPrompt(text) == SubSeq(text, 1, Min(Len(text), MaxPromptChars))

\* content.match(/\{[\s\S]*\}/): from the first "{" to the last "}" that
\* follows it; <<>> when there is no match.
JsonMatch(content) ==
  LET opens == {i \in 1..Len(content) : content[i] = P("{")}
      closes == {j \in 1..Len(content) : content[j] = P("}")} IN
  IF opens = {} THEN <<>>
  ELSE LET i == CHOOSE a \in opens : \A b \in opens : a <= b
           after == {j \in closes : j > i} IN
       IF after = {} THEN <<>>
       ELSE SubSeq(content, i, CHOOSE a \in after : \A b \in after : b <= a)

Analysis(summary, docType, attributes) ==
  [ok |-> TRUE, summary |-> summary, docType |-> docType,
   attributes |-> attributes, err |-> NoErr]
AnalysisFailed(e) ==
  [ok |-> FALSE, summary |-> Undefined, docType |-> Undefined,
   attributes |-> Undefined, err |-> e]

\* The parser with a slip: no placeholder for a missing field.
parseAnalysisResponse_NoDefaults(content) ==
  LET jsonMatch == JsonMatch(content) IN
  IF jsonMatch = <<>>
  THEN AnalysisFailed(Err("InternalServerErrorException",
         "Failed to parse LLM response: No JSON found in response"))
  ELSE LET parsed == JSONParse(jsonMatch) IN
       IF ~parsed.ok
       THEN AnalysisFailed(Err("InternalServerErrorException",
              "Failed to parse LLM response: Unexpected token"))
       ELSE Analysis(GetProp(parsed.val, "summary"),
                     GetProp(parsed.val, "docType"),
                     GetProp(parsed.val, "attributes"))

\* The parser with a slip: a missing field is a failure.
parseAnalysisResponse_Strict(content) ==
  LET a == parseAnalysisResponse_NoDefaults(content) IN
  IF a.ok /\ ~(Truthy(a.summary) /\ Truthy(a.docType) /\ Truthy(a.attributes))
  THEN AnalysisFailed(Err("InternalServerErrorException",
         "Failed to parse LLM response: Missing field"))
  ELSE a

parseAnalysisResponse(content) ==
  LET jsonMatch == JsonMatch(content) IN
  IF jsonMatch = <<>>
  THEN AnalysisFailed(Err("InternalServerErrorException",
         "Failed to parse LLM response: No JSON found in response"))
  ELSE LET parsed == JSONParse(jsonMatch) IN
       IF ~parsed.ok
       THEN AnalysisFailed(Err("InternalServerErrorException",
              "Failed to parse LLM response: Unexpected token"))
       ELSE Analysis(OrElse(GetProp(parsed.val, "summary"),
                            Str("No summary available")),
                     OrElse(GetProp(parsed.val, "docType"), Str("unknown")),
                     OrElse(GetProp(parsed.val, "attributes"), Obj(<<>>)))

\* What the chat-completion endpoint does with a request: the call fails,
\* or it answers with a message content.
HttpFailed == [ok |-> FALSE, content |-> <<>>]
HttpOk(content) == [ok |-> TRUE, content |-> content]

\* OpenRouterService.analyzeDocument once the HTTP call has ended; every
\* error, a parse error included, is rethrown by the outer catch.
openRouterAnalyze(reply) ==
  IF ~reply.ok
  THEN AnalysisFailed(Err("InternalServerErrorException",
         "Failed to analyze document with LLM: " \o "Network Error"))
  ELSE LET a == parseAnalysisResponse(reply.content) IN
       IF a.ok THEN a
       ELSE AnalysisFailed(Err("InternalServerErrorException",
              "Failed to analyze document with LLM: " \o a.err.message))

\* Message contents the model may answer with.
FullA ==
  <<P("{"), S("summary"), P(":"), S("An invoice"), P(","),
    S("docType"), P(":"), S("invoice"), P(","),
    S("attributes"), P(":"), P("{"), S("date"), P(":"), S("2025-12-01"),
    P(","), S("totalAmount"), P(":"), N("5000"), P("}"), P("}")>>
FullB ==
  <<W("Sure"), P("{"), S("summary"), P(":"), S("A letter"), P(","),
    S("docType"), P(":"), S("letter"), P(","),
    S("attributes"), P(":"), P("{"), S("sender"), P(":"), S("ABC Corp"),
    P(","), S("tags"), P(":"), P("["), S("x"), P(","), L("null"), P("]"),
    P("}"), P("}"), W("done")>>
Sparse ==
  <<P("{"), S("summary"), P(":"), S(""), P(","),
    S("docType"), P(":"), L("null"), P("}")>>
Overflow ==
  <<P("{"), S("summary"), P(":"), S("An invoice"), P(","),
    S("docType"), P(":"), S("invoice"), P(","),
    S("attributes"), P(":"), P("{"), S("totalAmount"), P(":"), N("1e999"),
    P("}"), P("}")>>
NumericSummary ==
  <<P("{"), S("summary"), P(":"), N("5"), P(","),
    S("docType"), P(":"), S("invoice"), P("}")>>
TwoObjects ==
  <<P("{"), S("summary"), P(":"), S("An invoice"), P("}"), W("or"),
    P("{"), S("summary"), P(":"), S("A letter"), P("}")>>
Bare == <<P("{"), P("}")>>
NoJson == <<W("Sorry"), W("no"), W("answer")>>

Contents ==
  {FullA, FullB, Sparse, Bare, Overflow, NumericSummary, TwoObjects, NoJson}
Replies == {HttpFailed} \cup {HttpOk(c) : c \in Contents}

(***************************************************************************)
(* State.                                                                  *)
(*   docs   the Document table, in creation order; a row's id is its index *)
(*   store  the objects of the bucket                                      *)
(*   uuids  how many uuidv4 tokens S3Service has drawn                     *)
(*   clock  the database's time, one tick per write                       *)
(*   req    the requests in progress: position, inputs, locals, calls      *)
(*          made, response                                                 *)
(*   arrived  how many requests have arrived so far                        *)
(*   hist   for every row, what the requests did to it: the file it was    *)
(*          uploaded from, how many analyses succeeded, and the result of  *)
(*          the latest one as the adapter returned it                      *)
(***************************************************************************)
VARIABLES docs, store, uuids, clock, req, arrived, hist

vars == <<docs, store, uuids, clock, req, arrived, hist>>

NoKey == [token |-> 0, name |-> ""]
NoAnalysis == AnalysisFailed(NoErr)

\* found: what the lookup of the request gave ("row", "null", "error");
\* reply: what the chat-completion endpoint answered, once it has.
IdleReq ==
  [pc |-> "idle", op |-> "none", file |-> NoFile, id |-> 0, key |-> NoKey,
   found |-> "", text |-> Chars(<<>>), prompt |-> <<>>, reply |-> HttpFailed,
   analysis |-> NoAnalysis, calls |-> <<>>, resp |-> Pending]

Init ==
  /\ docs = <<>>
  /\ store = {}
  /\ uuids = 0
  /\ clock = 0
  /\ req = [r \in Reqs |-> IdleReq]
  /\ arrived = 0
  /\ hist = <<>>

\* A request arrives: handlers are interchangeable, so it takes the first
\* idle one.
Arrives(r) ==
  /\ arrived < MaxReq
  /\ req[r].pc = "idle"
  /\ \A q \in 1..(r - 1) : req[q].pc # "idle"
  /\ arrived' = arrived + 1

Called(r, name) == Append(req[r].calls, name)

\* The request ends with the response rsp.
Ends(r, rsp) == [req[r] EXCEPT !.pc = "done", !.resp = rsp]

(***************************************************************************)
(* prisma.document                                                         *)
(***************************************************************************)
\* A lookup with a slip: an id past the last row gives the last row.
findUnique_Clamped(id) ==
  IF docs = <<>> THEN <<>>
  ELSE <<docs[IF id \in 1..Len(docs) THEN id ELSE Len(docs)]>>

\* findUnique({where: {id}}): the row, or null.
findUnique(id) == IF id \in 1..Len(docs) THEN <<docs[id]>> ELSE <<>>

\* A create with a slip: the name and the type written to each other's column.
NewRow_Swapped(id, file, key, text, now) ==
  [id |-> id, originalName |-> file.mimetype, mimeType |-> file.originalname,
   size |-> file.size, s3Key |-> key, extractedText |-> text,
   summary |-> JsNull, docType |-> JsNull, metadata |-> JsNull,
   createdAt |-> now, updatedAt |-> now]

\* create({data}): the new row; the analysis columns start null.
NewRow(id, file, key, text, now) ==
  [id |-> id, originalName |-> file.originalname, mimeType |-> file.mimetype,
   size |-> file.size, s3Key |-> key, extractedText |-> text,
   summary |-> JsNull, docType |-> JsNull, metadata |-> JsNull,
   createdAt |-> now, updatedAt |-> now]

\* A String? column takes a string, null, or undefined (leave as is).
FitsStringColumn(x) == x.t \in {"string", "text", "null", "undefined"}

\* An update with a slip: the original name is overwritten as well.
UpdatedRow_Renamed(row, data, now) ==
  [row EXCEPT
     !.originalName = "",
     !.summary = IF data.summary.t = "undefined" THEN @ ELSE data.summary,
     !.docType = IF data.docType.t = "undefined" THEN @ ELSE data.docType,
     !.metadata = IF data.metadata.t = "undefined" THEN @ ELSE data.metadata,
     !.updatedAt = now]

\* An update with a slip: a summary already set is kept, so that a second
\* analysis leaves the first summary beside its own type and metadata.
UpdatedRow_KeepsSummary(row, data, now) ==
  [row EXCEPT
     !.summary = IF row.summary.t # "null" \/ data.summary.t = "undefined"
                 THEN @ ELSE data.summary,
     !.docType = IF data.docType.t = "undefined" THEN @ ELSE data.docType,
     !.metadata = IF data.metadata.t = "undefined" THEN @ ELSE data.metadata,
     !.updatedAt = now]

\* An update with a slip: the extracted text is written too, shortened.
UpdatedRow_CutsText(row, data, now) ==
  [row EXCEPT
     !.extractedText = Chars(SubSeq(@.v, 1, Len(@.v) - 1)),
     !.summary = IF data.summary.t = "undefined" THEN @ ELSE data.summary,
     !.docType = IF data.docType.t = "undefined" THEN @ ELSE data.docType,
     !.metadata = IF data.metadata.t = "undefined" THEN @ ELSE data.metadata,
     !.updatedAt = now]

\* update({data}): a field given as undefined keeps the column's value.
UpdatedRow(row, data, now) ==
  [row EXCEPT
     !.summary = IF data.summary.t = "undefined" THEN @ ELSE data.summary,
     !.docType = IF data.docType.t = "undefined" THEN @ ELSE data.docType,
     !.metadata = IF data.metadata.t = "undefined" THEN @ ELSE data.metadata,
     !.updatedAt = now]

DbError == Err("Error", "database unavailable")
TypeError == Err("PrismaClientValidationError", "Invalid value provided")
S3Error == Err("Error", "S3 upload error")

(***************************************************************************)
(* POST /documents/upload                                                  *)
(***************************************************************************)
AllowedMimes == {PDF, DOCX}

\* Variants of the checks with one slip each: the limit taken as exclusive,
\* the type checked before the size, the type check left out.
ValidateUpload_Inclusive(file) ==
  CASE file.size >= MaxSize ->
         Err("BadRequestException", "File size must not exceed 5MB")
    [] file.mimetype \notin AllowedMimes ->
         Err("BadRequestException", "Only PDF and DOCX files are supported")
    [] OTHER -> NoErr

ValidateUpload_TypeFirst(file) ==
  CASE file.mimetype \notin AllowedMimes ->
         Err("BadRequestException", "Only PDF and DOCX files are supported")
    [] file.size > MaxSize ->
         Err("BadRequestException", "File size must not exceed 5MB")
    [] OTHER -> NoErr

ValidateUpload_NoTypeCheck(file) ==
  CASE file.size > MaxSize ->
         Err("BadRequestException", "File size must not exceed 5MB")
    [] OTHER -> NoErr

\* The checks at the head of DocumentsService.uploadDocument, in order.
ValidateUpload(file) ==
  CASE file.size > MaxSize ->
         Err("BadRequestException", "File size must not exceed 5MB")
    [] file.mimetype \notin AllowedMimes ->
         Err("BadRequestException", "Only PDF and DOCX files are supported")
    [] OTHER -> NoErr

\* The key with a slip: the file name alone, without a fresh token.
NewKey_NameOnly(file) == [token |-> 1, name |-> file.originalname]

\* The key with a slip: a token computed from the file, not drawn afresh.
NewKey_FromFile(file) == [token |-> file.size, name |-> file.originalname]

\* S3Service.uploadFile up to its await: the key is `${uuidv4()}-${name}`.
NewKey(file) == [token |-> uuids + 1, name |-> file.originalname]

\* The catch with a slip: the cause is thrown again as it is.
UploadFailed_Rethrown(error) == error

\* The catch of DocumentsService.uploadDocument: whatever was thrown inside
\* the try leaves as one BadRequest carrying the message of the cause.
UploadFailed(error) ==
  Err("BadRequestException", "Upload failed: " \o error.message)

\* The route with a slip: a missing file is not refused, and reaches the
\* service.
RequireFile_Absent(file) == NoErr

\* The test DocumentsController.uploadDocument makes before it calls the
\* service.
RequireFile(file) ==
  IF ~file.present THEN Err("BadRequestException", "No file uploaded")
  ELSE NoErr

\* The route and the service up to the first await.
uploadDocument(r, file) ==
  /\ Arrives(r)
  /\ (file.present /\ ValidateUpload(file) = NoErr) => uuids < MaxUploads
  /\ IF RequireFile(file) # NoErr
     THEN /\ req' = [req EXCEPT ![r] =
                 [Ends(r, Rejected(RequireFile(file)))
                    EXCEPT !.op = "upload"]]
          /\ UNCHANGED uuids
     ELSE IF ValidateUpload(file) # NoErr
     THEN /\ req' = [req EXCEPT ![r] =
                 [Ends(r, Rejected(ValidateUpload(file)))
                    EXCEPT !.op = "upload", !.file = file]]
          /\ UNCHANGED uuids
     ELSE /\ req' = [req EXCEPT ![r] =
                 [@ EXCEPT !.pc = "s3", !.op = "upload", !.file = file,
                           !.key = NewKey(file),
                           !.calls = Called(r, "s3.uploadFile")]]
          /\ uuids' = uuids + 1
  /\ UNCHANGED <<docs, store, clock, hist>>

\* The step with a slip: the PutObject is not awaited, so the service goes
\* on to extractText whether or not the object was stored.
uploadFile_NotAwaited(r, ok) ==
  /\ req[r].pc = "s3"
  /\ IF ok
     THEN store' = {o \in store : o.key # req[r].key}
                   \cup {[key |-> req[r].key, body |-> req[r].file.buffer,
                          contentType |-> req[r].file.mimetype]}
     ELSE UNCHANGED store
  /\ req' = [req EXCEPT ![r] =
         [@ EXCEPT !.pc = "extract",
                   !.calls = Called(r, "textExtraction.extractText")]]
  /\ UNCHANGED <<docs, uuids, clock, hist>>
  /\ UNCHANGED arrived

\* The PutObject of S3Service.uploadFile ends; on success the service goes
\* on to extractText.
uploadFile(r, ok) ==
  /\ req[r].pc = "s3"
  /\ IF ok
     THEN /\ store' = {o \in store : o.key # req[r].key}
                      \cup {[key |-> req[r].key, body |-> req[r].file.buffer,
                             contentType |-> req[r].file.mimetype]}
          /\ req' = [req EXCEPT ![r] =
                 [@ EXCEPT !.pc = "extract",
                           !.calls = Called(r, "textExtraction.extractText")]]
     ELSE /\ req' = [req EXCEPT ![r] =
                 Ends(r, Rejected(UploadFailed(S3Error)))]
          /\ UNCHANGED store
  /\ UNCHANGED <<docs, uuids, clock, hist>>
  /\ UNCHANGED arrived

\* The step with a slip: a failed extraction is passed over, and the
\* service goes on to document.create with an empty text.
extractTextDone_GoesOn(r) ==
  /\ req[r].pc = "extract"
  /\ LET x == extractText(req[r].file.buffer, req[r].file.mimetype) IN
     req' = [req EXCEPT ![r] =
       [@ EXCEPT !.pc = "create", !.text = x.text,
                 !.calls = Called(r, "prisma.document.create")]]
  /\ UNCHANGED <<docs, store, uuids, clock, hist>>
  /\ UNCHANGED arrived

\* extractText ends; on success the service goes on to document.create.
extractTextDone(r) ==
  /\ req[r].pc = "extract"
  /\ LET x == extractText(req[r].file.buffer, req[r].file.mimetype) IN
     req' = [req EXCEPT ![r] =
       IF x.ok
       THEN [@ EXCEPT !.pc = "create", !.text = x.text,
                      !.calls = Called(r, "prisma.document.create")]
       ELSE Ends(r, Rejected(UploadFailed(x.err)))]
  /\ UNCHANGED <<docs, store, uuids, clock, hist>>
  /\ UNCHANGED arrived

\* The step with a slip: when the create fails the catch deletes the object
\* the request stored.
createDone_CleansUp(r, ok) ==
  /\ req[r].pc = "create"
  /\ IF ok
     THEN LET document == NewRow(Len(docs) + 1, req[r].file, req[r].key,
                                 req[r].text, clock + 1) IN
          /\ docs' = Append(docs, document)
          /\ hist' = Append(hist, [file |-> req[r].file, analyses |-> 0,
                                   last |-> NoAnalysis])
          /\ clock' = clock + 1
          /\ req' = [req EXCEPT ![r] =
                 Ends(r, Resolved([id |-> document.id,
                                   originalName |-> document.originalName,
                                   mimeType |-> document.mimeType,
                                   size |-> document.size,
                                   createdAt |-> document.createdAt]))]
          /\ UNCHANGED store
     ELSE /\ req' = [req EXCEPT ![r] =
                 [Ends(r, Rejected(UploadFailed(DbError)))
                    EXCEPT !.calls = Called(r, "s3.deleteFile")]]
          /\ store' = {o \in store : o.key # req[r].key}
          /\ UNCHANGED <<docs, clock, hist>>
  /\ UNCHANGED uuids
  /\ UNCHANGED arrived

\* document.create ends.
createDone(r, ok) ==
  /\ req[r].pc = "create"
  /\ IF ok
     THEN LET document == NewRow(Len(docs) + 1, req[r].file, req[r].key,
                                 req[r].text, clock + 1) IN
          /\ docs' = Append(docs, document)
          /\ hist' = Append(hist, [file |-> req[r].file, analyses |-> 0,
                                   last |-> NoAnalysis])
          /\ clock' = clock + 1
          /\ req' = [req EXCEPT ![r] =
                 Ends(r, Resolved([id |-> document.id,
                                   originalName |-> document.originalName,
                                   mimeType |-> document.mimeType,
                                   size |-> document.size,
                                   createdAt |-> document.createdAt]))]
     ELSE /\ req' = [req EXCEPT ![r] =
                 Ends(r, Rejected(UploadFailed(DbError)))]
          /\ UNCHANGED <<docs, clock, hist>>
  /\ UNCHANGED <<store, uuids>>
  /\ UNCHANGED arrived

(***************************************************************************)
(* POST /documents/:id/analyze                                             *)
(***************************************************************************)
\* Identifiers a client may ask for: those of the rows, and one of no row.
Ids == 1..(Len(docs) + 1)

\* JSON.stringify(analysis.attributes) as a column value.
Text(toks) == IF toks = <<>> THEN Undefined ELSE [t |-> "text", v |-> toks]

\* The data of the update DocumentsService.analyzeDocument issues.
AnalysisData(analysis) ==
  [summary |-> analysis.summary,
   docType |-> analysis.docType,
   metadata |-> Text(JSONStringify(analysis.attributes))]

\* What a lookup gave: the row, null, or an error thrown.
Found(document, dbOk) ==
  IF ~dbOk THEN "error" ELSE IF document = <<>> THEN "null" ELSE "row"

\* The checks with a slip: only a null text refused, '' let through.
CheckDocument_NullOnly(document) ==
  IF document = <<>>
  THEN Err("NotFoundException", "Document not found")
  ELSE IF document[1].extractedText.t = "null"
  THEN Err("BadRequestException", "No extracted text found for this document")
  ELSE NoErr

\* The checks with a slip: no test for a missing row, so reading the text of
\* null throws.
CheckDocument_NoNullCheck(document) ==
  IF document = <<>>
  THEN Err("TypeError", "Cannot read properties of null")
  ELSE IF IsFalsyText(document[1].extractedText)
  THEN Err("BadRequestException", "No extracted text found for this document")
  ELSE NoErr

\* The two checks DocumentsService.analyzeDocument makes on the looked-up
\* document before it calls the adapter, in order.
CheckDocument(document) ==
  IF document = <<>>
  THEN Err("NotFoundException", "Document not found")
  ELSE IF IsFalsyText(document[1].extractedText)
  THEN Err("BadRequestException", "No extracted text found for this document")
  ELSE NoErr

\* The catch with a slip: the cause is thrown again as it is.
AnalysisFailure_Rethrown(error) == error

\* The catch of DocumentsService.analyzeDocument: whatever the adapter or
\* the update threw leaves as one BadRequest carrying the message of the
\* cause.
AnalysisFailure(error) ==
  Err("BadRequestException", "Analysis failed: " \o error.message)

\* The lookup with a slip: it sits inside the try, so that its failure is
\* wrapped like those of the adapter and the update.
Uncaught_Wrapped(error) == AnalysisFailure(error)

\* An error thrown where no try encloses the call, as by the lookup of
\* DocumentsService.analyzeDocument: it leaves the service, and the route,
\* which has no catch either, as the very same error.
Uncaught(error) == error

\* The route and the service up to the await of the adapter: the lookup,
\* the two checks, and the prompt.  A lookup that throws is not caught.
analyzeDocument(r, id, dbOk) ==
  /\ Arrives(r)
  /\ LET document == findUnique(id)
         me == [req[r] EXCEPT !.op = "analyze", !.id = id,
                  !.found = Found(document, dbOk),
                  !.calls = Called(r, "prisma.document.findUnique")]
         ends(rsp) == [me EXCEPT !.pc = "done", !.resp = rsp] IN
     req' = [req EXCEPT ![r] =
       IF ~dbOk THEN ends(Rejected(Uncaught(DbError)))
       ELSE IF CheckDocument(document) # NoErr
       THEN ends(Rejected(CheckDocument(document)))
       ELSE [me EXCEPT !.pc = "llm", !.text = document[1].extractedText,
               !.prompt = buildAnalysisPrompt(document[1].extractedText.v),
               !.calls = Append(me.calls, "openRouter.analyzeDocument")]]
  /\ UNCHANGED <<docs, store, uuids, clock, hist>>

\* The adapter ends; on success the service goes on to document.update.
analyzeDone(r, reply) ==
  /\ req[r].pc = "llm"
  /\ LET analysis == openRouterAnalyze(reply) IN
     req' = [req EXCEPT ![r] =
       IF analysis.ok
       THEN [@ EXCEPT !.pc = "update", !.reply = reply,
                      !.analysis = analysis,
                      !.calls = Called(r, "prisma.document.update")]
       ELSE [Ends(r, Rejected(AnalysisFailure(analysis.err)))
               EXCEPT !.reply = reply]]
  /\ UNCHANGED <<docs, store, uuids, clock, hist>>
  /\ UNCHANGED arrived

\* document.update ends.
updateDone(r, ok) ==
  /\ req[r].pc = "update"
  /\ LET data == AnalysisData(req[r].analysis)
         fits == /\ FitsStringColumn(data.summary)
                 /\ FitsStringColumn(data.docType)
                 /\ FitsStringColumn(data.metadata) IN
     IF ok /\ fits
     THEN LET updated == UpdatedRow(docs[req[r].id], data, clock + 1) IN
          /\ docs' = [docs EXCEPT ![req[r].id] = updated]
          /\ hist' = [hist EXCEPT ![req[r].id] =
                        [@ EXCEPT !.analyses = @ + 1,
                                  !.last = req[r].analysis]]
          /\ clock' = clock + 1
          /\ req' = [req EXCEPT ![r] =
                 Ends(r, Resolved([id |-> updated.id,
                                   summary |-> updated.summary,
                                   docType |-> updated.docType,
                                   attributes |-> req[r].analysis.attributes]))]
     ELSE /\ req' = [req EXCEPT ![r] =
                 Ends(r, Rejected(AnalysisFailure(IF fits THEN DbError
                                                  ELSE TypeError)))]
          /\ UNCHANGED <<docs, clock, hist>>
  /\ UNCHANGED <<store, uuids>>
  /\ UNCHANGED arrived

(***************************************************************************)
(* GET /documents/:id                                                      *)
(***************************************************************************)
\* The composite DocumentsService.getDocument returns for a row.
DocumentView(document) ==
  [fileInfo |-> [id |-> document.id,
                 originalName |-> document.originalName,
                 mimeType |-> document.mimeType,
                 size |-> document.size,
                 s3Key |-> document.s3Key,
                 createdAt |-> document.createdAt,
                 updatedAt |-> document.updatedAt],
   text |-> document.extractedText,
   summary |-> document.summary,
   docType |-> document.docType,
   metadata |-> IF document.metadata.t = "null" THEN JsNull
                ELSE JSONParse(document.metadata.v).val]

getDocument(r, id, dbOk) ==
  /\ Arrives(r)
  /\ LET document == findUnique(id)
         me == [req[r] EXCEPT !.op = "get", !.id = id,
                  !.found = Found(document, dbOk),
                  !.calls = Called(r, "prisma.document.findUnique")]
         ends(rsp) == [me EXCEPT !.pc = "done", !.resp = rsp] IN
     req' = [req EXCEPT ![r] =
       IF ~dbOk THEN ends(Rejected(Uncaught(DbError)))
       ELSE IF document = <<>>
       THEN ends(Rejected(Err("NotFoundException", "Document not found")))
       ELSE ends(Resolved(DocumentView(document[1])))]
  /\ UNCHANGED <<docs, store, uuids, clock, hist>>

(***************************************************************************)
(* The response leaves the server and the handler is free again.           *)
(***************************************************************************)
respond(r) ==
  /\ req[r].pc = "done"
  /\ req' = [req EXCEPT ![r] = IdleReq]
  /\ UNCHANGED <<docs, store, uuids, clock, arrived, hist>>

(***************************************************************************)
(* The specification.                                                      *)
(***************************************************************************)
Next ==
  \/ \E r \in Reqs, file \in Files \cup {NoFile} : uploadDocument(r, file)
  \/ \E r \in Reqs, ok \in BOOLEAN : uploadFile(r, ok)
  \/ \E r \in Reqs : extractTextDone(r)
  \/ \E r \in Reqs, ok \in BOOLEAN : createDone(r, ok)
  \/ \E r \in Reqs, id \in Ids, dbOk \in BOOLEAN : analyzeDocument(r, id, dbOk)
  \/ \E r \in Reqs, reply \in Replies : analyzeDone(r, reply)
  \/ \E r \in Reqs, ok \in BOOLEAN : updateDone(r, ok)
  \/ \E r \in Reqs, id \in Ids, dbOk \in BOOLEAN : getDocument(r, id, dbOk)
  \/ \E r \in Reqs : respond(r)

Spec == Init /\ [][Next]_vars

(***************************************************************************)
(* Analyses of long documents: the state after the upload of a PDF whose   *)
(* text has about as many characters as the prompt takes, and from there   *)
(* the requests that analyze it.                                           *)
(***************************************************************************)
LongFiles ==
  [present : {TRUE}, originalname : {"test.pdf"}, mimetype : {PDF},
   size : {MaxSize}, buffer : LongBuffers]

InitLongText ==
  \E file \in LongFiles :
    LET key == [token |-> 1, name |-> file.originalname] IN
    /\ uuids = 1
    /\ store = {[key |-> key, body |-> file.buffer,
                 contentType |-> file.mimetype]}
    /\ clock = 1
    /\ docs = <<NewRow(1, file, key,
                       extractText(file.buffer, file.mimetype).text, 1)>>
    /\ hist = <<[file |-> file, analyses |-> 0, last |-> NoAnalysis]>>
    /\ req = [r \in Reqs |-> IdleReq]
    /\ arrived = 1

NextLongText ==
  \/ \E r \in Reqs, id \in Ids, dbOk \in BOOLEAN : analyzeDocument(r, id, dbOk)
  \/ \E r \in Reqs, reply \in Replies : analyzeDone(r, reply)
  \/ \E r \in Reqs, ok \in BOOLEAN : updateDone(r, ok)
  \/ \E r \in Reqs : respond(r)

SpecLongText == InitLongText /\ [][NextLongText]_vars


(***************************************************************************)
(* Properties of the upload validation.                                    *)
(***************************************************************************)
SizeError == Err("BadRequestException", "File size must not exceed 5MB")
UnsupportedType ==
  Err("BadRequestException", "Only PDF and DOCX files are supported")
Supported(m) ==
  m \in {"application/pdf",
         "application/vnd.openxmlformats-officedocument.wordprocessingml.document"}

\* C1: an upload of a file larger than 5,242,880 bytes is rejected at once
\* with BadRequest 'File size must not exceed 5MB', whatever its MIME type,
\* and a file of at most 5,242,880 bytes never gets the size error.
C1_OversizeRejected ==
  \A r \in Reqs :
    (req[r].op = "upload" /\ req[r].file.present) =>
      /\ req[r].file.size > 5242880 =>
           (req[r].pc = "done" /\ req[r].resp = Rejected(SizeError))
      /\ req[r].file.size <= 5242880 => req[r].resp.err # SizeError

\* An oversized file of an unsupported type has been given the size error.
C1_Witness ==
  \E r \in Reqs :
    /\ req[r].op = "upload"
    /\ req[r].file.size = 5242881
    /\ req[r].file.mimetype = "image/png"
    /\ req[r].resp = Rejected(SizeError)
    /\ StatusOf(req[r].resp.err) = 400

\* C2 as stated: every upload of a file of an unsupported MIME type is
\* rejected with the unsupported-type error, whatever its size.
C2_AnySizeGetsTypeError ==
  \A r \in Reqs :
    (req[r].op = "upload" /\ req[r].file.present
       /\ ~Supported(req[r].file.mimetype)) =>
      (req[r].pc = "done" /\ req[r].resp = Rejected(UnsupportedType))

\* C2 amended: every upload of a file of an unsupported MIME type is
\* rejected at once, with the unsupported-type error when the file has at
\* most 5,242,880 bytes and with the size error when it is larger.
C2_UnsupportedRejected ==
  \A r \in Reqs :
    (req[r].op = "upload" /\ req[r].file.present
       /\ ~Supported(req[r].file.mimetype)) =>
      /\ req[r].pc = "done"
      /\ req[r].resp = Rejected(IF req[r].file.size > 5242880
                                THEN SizeError ELSE UnsupportedType)

\* A file of exactly 5,242,880 bytes and an unsupported type has been given
\* the unsupported-type error.
C2_Witness ==
  \E r \in Reqs :
    /\ req[r].op = "upload"
    /\ req[r].file.size = 5242880
    /\ req[r].file.mimetype = "image/png"
    /\ req[r].resp = Rejected(UnsupportedType)

\* A file the validation refuses: none, too large, or of an unsupported type.
Refused(f) ==
  ~f.present \/ f.size > 5242880 \/ ~Supported(f.mimetype)

\* C3: the step in which an upload request with a missing, oversized or
\* unsupported file arrives ends the request with a 400 error, has made no
\* call to the object store, the extractor or the database, and leaves the
\* stored objects and the Document rows as they were.
C3_ValidationLeavesNoState ==
  [][\A r \in Reqs :
       (req[r].pc = "idle" /\ req'[r].op = "upload" /\ Refused(req'[r].file)) =>
         /\ req'[r].pc = "done"
         /\ req'[r].resp.state = "error"
         /\ StatusOf(req'[r].resp.err) = 400
         /\ req'[r].calls = <<>>
         /\ docs' = docs
         /\ store' = store
         /\ uuids' = uuids]_vars

\* With a row and an object already there, an upload of an unsupported type
\* has ended without a call.
C3_Witness ==
  /\ Len(docs) >= 1
  /\ store # {}
  /\ \E r \in Reqs :
       /\ req[r].op = "upload"
       /\ req[r].pc = "done"
       /\ Refused(req[r].file)
       /\ req[r].calls = <<>>
       /\ req[r].resp.state = "error"


(***************************************************************************)
(* Properties of upload, analyze and get together.                         *)
(***************************************************************************)
SameFile(info, f) ==
  /\ info.originalName = f.originalname
  /\ info.mimeType = f.mimetype
  /\ info.size = f.size

Unanalysed(v) ==
  v.summary = JsNull /\ v.docType = JsNull /\ v.metadata = JsNull

C5_GetReturnsLatestAnalysis ==
  \A i \in 1..Len(docs) :
    hist[i].analyses > 0 =>
      LET v == DocumentView(docs[i]) IN
      /\ v.summary = hist[i].last.summary
      /\ v.docType = hist[i].last.docType
      /\ v.metadata = hist[i].last.attributes

NoText(x) == x.t = "null" \/ x.v = <<>>
NoTextError ==
  Err("BadRequestException", "No extracted text found for this document")
NotFound == Err("NotFoundException", "Document not found")

\* C6: an analyze whose lookup finds a row with a null or empty extracted
\* text ends at once with BadRequest 'No extracted text found for this
\* document', having called neither the adapter nor update; such a row is
\* never analysed.
C6_NoTextNoAnalysis ==
  /\ \A r \in Reqs :
       (req[r].op = "analyze" /\ req[r].found = "row"
          /\ NoText(docs[req[r].id].extractedText)) =>
         /\ req[r].pc = "done"
         /\ req[r].resp = Rejected(NoTextError)
         /\ StatusOf(req[r].resp.err) = 400
         /\ req[r].calls = <<"prisma.document.findUnique">>
  /\ \A i \in 1..Len(docs) :
       NoText(docs[i].extractedText) =>
         (hist[i].analyses = 0 /\ Unanalysed(docs[i]))

\* An analyze of a row whose extracted text is '' has been refused.
C6_Witness ==
  \E r \in Reqs :
    /\ req[r].op = "analyze"
    /\ req[r].found = "row"
    /\ docs[req[r].id].extractedText = Chars(<<>>)
    /\ req[r].resp = Rejected(NoTextError)

\* C7: the step in which an analyze arrives for an id of no row (the lookup
\* itself not failing) ends the request with NotFound 'Document not found',
\* with the lookup as its only call, and changes no row.
C7_AnalyzeMissing ==
  [][\A r \in Reqs :
       (req[r].pc = "idle" /\ req'[r].op = "analyze"
          /\ req'[r].id \notin 1..Len(docs) /\ req'[r].found # "error") =>
         /\ req'[r].pc = "done"
         /\ req'[r].resp = Rejected(NotFound)
         /\ StatusOf(req'[r].resp.err) = 404
         /\ req'[r].calls = <<"prisma.document.findUnique">>
         /\ docs' = docs]_vars

\* With a row in the table, an analyze of the next id has been refused.
C7_Witness ==
  /\ Len(docs) >= 1
  /\ \E r \in Reqs :
       /\ req[r].op = "analyze"
       /\ req[r].id = Len(docs) + 1
       /\ req[r].found = "null"
       /\ req[r].resp = Rejected(NotFound)

\* C8: the step in which a get arrives for an id of no row (the lookup
\* itself not failing) ends the request with NotFound 'Document not found',
\* status 404 and not 400, and changes nothing but the request.
C8_GetMissing ==
  [][\A r \in Reqs :
       (req[r].pc = "idle" /\ req'[r].op = "get"
          /\ req'[r].id \notin 1..Len(docs) /\ req'[r].found # "error") =>
         /\ req'[r].pc = "done"
         /\ req'[r].resp = Rejected(NotFound)
         /\ StatusOf(req'[r].resp.err) = 404
         /\ UNCHANGED <<docs, store, uuids, clock, hist>>]_vars

\* With a row in the table, a get of the next id has been refused.
C8_Witness ==
  /\ Len(docs) >= 1
  /\ \E r \in Reqs :
       /\ req[r].op = "get"
       /\ req[r].id = Len(docs) + 1
       /\ req[r].found = "null"
       /\ req[r].resp = Rejected(NotFound)

\* C9: in every state every row has summary, docType and metadata all null
\* or all set.
C9_AnalysisFieldsTogether ==
  \A i \in 1..Len(docs) :
    \/ Unanalysed(docs[i])
    \/ /\ docs[i].summary # JsNull
       /\ docs[i].docType # JsNull
       /\ docs[i].metadata # JsNull

\* A row analysed from a reply that lacks all three fields has all three
\* set, while another analyze of it is under way.
C9_Witness ==
  \E i \in 1..Len(docs) :
    /\ docs[i].summary = Str("No summary available")
    /\ docs[i].docType = Str("unknown")
    /\ docs[i].metadata # JsNull
    /\ \E r \in Reqs : req[r].op = "analyze" /\ req[r].id = i
                       /\ req[r].pc = "update"

\* C10: the metadata get returns for an analysed row has the keys and values
\* of the attributes the adapter returned in the latest successful analyze,
\* and the stored metadata is the JSON text of those attributes.
C10_MetadataRoundTrip ==
  \A i \in 1..Len(docs) :
    hist[i].analyses > 0 =>
      /\ docs[i].metadata = Text(JSONStringify(hist[i].last.attributes))
      /\ JSONParse(docs[i].metadata.v).val = hist[i].last.attributes

(***************************************************************************)
(* Properties of the failures of the dependencies.                         *)
(***************************************************************************)
\* The message of what the dependency an upload request called last threw.
C11_CauseMessage(r) ==
  CASE Len(req[r].calls) = 1 -> "S3 upload error"
    [] Len(req[r].calls) = 2 ->
         IF req[r].file.mimetype = "application/pdf"
         THEN "Failed to extract text from PDF: Error: bad file"
         ELSE "Failed to extract text from DOCX: Error: bad file"
    [] OTHER -> "database unavailable"

\* C11: an upload request whose file passed the validation and whose
\* object-store upload, text extraction or Document create failed has ended
\* with a BadRequest (400) error whose message is 'Upload failed: ' followed
\* by the message of the failure, and no Document row carries the storage
\* key of that request.
C11_UploadFailureWrapped ==
  \A r \in Reqs :
    (req[r].op = "upload" /\ req[r].pc = "done" /\ ~Refused(req[r].file)
       /\ req[r].resp.state = "error") =>
      /\ req[r].resp.err.name = "BadRequestException"
      /\ StatusOf(req[r].resp.err) = 400
      /\ req[r].resp.err.message = "Upload failed: " \o C11_CauseMessage(r)
      /\ \A i \in 1..Len(docs) : docs[i].s3Key # req[r].key

\* One upload has failed in the text extraction and another in the create,
\* each with the wrapped message of its own cause.
C11_Witness ==
  \E r, q \in Reqs :
    /\ req[r].op = "upload" /\ req[q].op = "upload"
    /\ Len(req[r].calls) = 2
    /\ req[r].resp.err.message =
         "Upload failed: Failed to extract text from PDF: Error: bad file"
    /\ Len(req[q].calls) = 3
    /\ req[q].resp.err.message = "Upload failed: database unavailable"

\* The messages the adapter can fail with, and those the update can.
C12_AdapterMessages ==
  {"Failed to analyze document with LLM: Network Error",
   "Failed to analyze document with LLM: Failed to parse LLM response: No JSON found in response",
   "Failed to analyze document with LLM: Failed to parse LLM response: Unexpected token"}
C12_UpdateMessages == {"database unavailable", "Invalid value provided"}

\* C12: the step in which the adapter call or the Document update of an
\* analyze request fails ends the request with a BadRequest (400) error
\* whose message is 'Analysis failed: ' followed by the message of the
\* failure, never with the adapter's InternalServerError; and no step of an
\* analyze request other than its successful update changes a Document, so
\* summary, docType and metadata are left as they were.
C12_AnalysisFailureWrapped ==
  [][\A r \in Reqs :
       /\ (req[r].op = "analyze" /\ req[r].pc \in {"llm", "update"}
             /\ req'[r].pc = "done" /\ req'[r].resp.state = "error") =>
            /\ req'[r].resp.err.name = "BadRequestException"
            /\ StatusOf(req'[r].resp.err) = 400
            /\ \E m \in (IF req[r].pc = "llm" THEN C12_AdapterMessages
                         ELSE C12_UpdateMessages) :
                 req'[r].resp.err.message = "Analysis failed: " \o m
            /\ docs' = docs
       /\ (req'[r] # req[r] /\ req'[r].op = "analyze"
             /\ req'[r].resp.state # "ok") => docs' = docs]_vars

\* A document analysed once keeps the summary, type and metadata of that
\* analysis after a second analysis of it has failed in the adapter.
C12_Witness ==
  /\ Len(docs) >= 1
  /\ hist[1].analyses = 1
  /\ docs[1].summary = hist[1].last.summary
  /\ docs[1].docType = hist[1].last.docType
  /\ docs[1].metadata.t = "text"
  /\ \E r \in Reqs :
       /\ req[r].op = "analyze" /\ req[r].id = 1
       /\ req[r].resp.err.message =
            "Analysis failed: Failed to analyze document with LLM: Network Error"

(***************************************************************************)
(* Properties of the Document table and the object store.                  *)
(***************************************************************************)
\* C13 as stated: a Document is created only by an upload, and after its
\* first successful analysis no later operation changes any of its fields.
C13_MutatedExactlyOnce ==
  [][/\ Len(docs') >= Len(docs)
     /\ Len(docs') # Len(docs) =>
          \E r \in Reqs : req[r].op = "upload" /\ req[r].pc = "create"
     /\ \A i \in 1..Len(docs) :
          hist[i].analyses >= 1 => docs'[i] = docs[i]]_vars

\* C13 amended: a Document is created only by the create of an upload
\* request and never removed; a row changes only in the successful update of
\* an analyze request for that row, every such update, the first or a later
\* one, overwriting summary, docType, metadata and updatedAt and nothing
\* else; a get changes nothing.
C13_Lifecycle ==
  [][/\ Len(docs') >= Len(docs)
     /\ Len(docs') # Len(docs) =>
          /\ Len(docs') = Len(docs) + 1
          /\ \E r \in Reqs : /\ req[r].op = "upload" /\ req[r].pc = "create"
                             /\ req'[r].resp.state = "ok"
                             /\ req'[r].resp.body.id = Len(docs')
     /\ \A i \in 1..Len(docs) :
          docs'[i] # docs[i] =>
            /\ \E r \in Reqs : /\ req[r].op = "analyze" /\ req[r].pc = "update"
                               /\ req[r].id = i
                               /\ req'[r].resp.state = "ok"
            /\ [docs'[i] EXCEPT !.summary = docs[i].summary,
                                !.docType = docs[i].docType,
                                !.metadata = docs[i].metadata,
                                !.updatedAt = docs[i].updatedAt] = docs[i]]_vars

\* A document has been analysed twice: it was written twice after its
\* creation and holds the result of the second analysis.
C13_Witness ==
  /\ Len(docs) >= 1
  /\ hist[1].analyses = 2
  /\ docs[1].summary = hist[1].last.summary
  /\ docs[1].updatedAt = docs[1].createdAt + 2
  /\ \E r \in Reqs : /\ req[r].op = "analyze" /\ req[r].id = 1
                     /\ req[r].resp.state = "ok"
                     /\ req[r].resp.body.summary = docs[1].summary

\* C14: after every step, every Document's s3Key is the key of exactly one
\* object of the store, the object put there for the file the row was
\* created from; and no step removes or replaces a stored object.
C14_KeyNamesOneObject ==
  [][/\ \A i \in 1..Len(docs') :
          LET named == {o \in store' : o.key = docs'[i].s3Key} IN
          /\ Cardinality(named) = 1
          /\ \A o \in named : /\ o.body = hist'[i].file.buffer
                              /\ o.contentType = hist'[i].file.mimetype
     /\ store \subseteq store']_vars

\* Two documents uploaded under the same file name have two different keys
\* and two objects, and a document has been read since.
C14_Witness ==
  /\ Len(docs) = 2
  /\ docs[1].originalName = docs[2].originalName
  /\ docs[1].s3Key # docs[2].s3Key
  /\ \A i \in 1..2 : \E o \in store : o.key = docs[i].s3Key
  /\ \E r \in Reqs : req[r].op = "get" /\ req[r].resp.state = "ok"

(***************************************************************************)
(* Properties of the order of the calls.                                   *)
(***************************************************************************)
\* The external calls of each operation, in the order it makes them.
C15_Chain(op) ==
  CASE op = "upload" ->
         <<"s3.uploadFile", "textExtraction.extractText",
           "prisma.document.create">>
    [] op = "analyze" ->
         <<"prisma.document.findUnique", "openRouter.analyzeDocument",
           "prisma.document.update">>
    [] op = "get" -> <<"prisma.document.findUnique">>
    [] OTHER -> <<>>

\* The request q has called each dependency at most once, and has made a
\* call only when every earlier call of its chain had succeeded; objects is
\* the content of the store.
C15_NoCallAfterFailure(q, objects) ==
  LET n == Len(q.calls) IN
  /\ n <= Len(C15_Chain(q.op))
  /\ q.calls = SubSeq(C15_Chain(q.op), 1, n)
  /\ \A i, j \in 1..n : i # j => q.calls[i] # q.calls[j]
  /\ (q.op = "upload" /\ n >= 2) => \E o \in objects : o.key = q.key
  /\ (q.op = "upload" /\ n = 3) => q.file.buffer \notin {"corrupt"}
  /\ (q.op = "analyze" /\ n >= 2) => q.found = "row"
  /\ (q.op = "analyze" /\ n = 3) => q.analysis.ok
  /\ (q.op = "analyze" /\ q.found # "row") => q.resp.state = "error"
  /\ (q.op = "get" /\ q.found # "row") => q.resp.state = "error"

\* C15: after every step, every request has invoked each external
\* dependency at most once and has made no call after a call of it failed;
\* a request that has ended, with an error or a result, makes no further
\* call.
C15_NoRetry ==
  [][\A r \in Reqs :
       /\ C15_NoCallAfterFailure(req'[r], store')
       /\ req[r].pc = "done" => (req'[r] = req[r] \/ req'[r] = IdleReq)]_vars

\* An upload has ended in error after its one call to the object store, and
\* an analysis after its one call to the adapter.
C15_Witness ==
  \E r, q \in Reqs :
    /\ req[r].op = "upload" /\ req[r].resp.state = "error"
    /\ req[r].calls = <<"s3.uploadFile">>
    /\ req[q].op = "analyze" /\ req[q].resp.state = "error"
    /\ req[q].calls = <<"prisma.document.findUnique",
                        "openRouter.analyzeDocument">>

(***************************************************************************)
(* Properties of the routes.                                               *)
(***************************************************************************)
\* C16: an upload request without a file has ended with BadRequest 'No file
\* uploaded' before any step of the service (no file handed over, no call
\* made); an upload request with a file has that very file in the service,
\* and ends with what the service gives for it: one of the service's errors,
\* or the summary of the row created from that file.
C16_UploadRoute ==
  \A r \in Reqs :
    req[r].op = "upload" =>
      IF ~req[r].file.present
      THEN /\ req[r].pc = "done"
           /\ req[r].resp =
                Rejected(Err("BadRequestException", "No file uploaded"))
           /\ req[r].calls = <<>>
           /\ req[r].key = NoKey
      ELSE /\ req[r].resp.err.message # "No file uploaded"
           /\ (req[r].pc = "done" /\ req[r].resp.state = "error") =>
                \/ req[r].resp.err \in {SizeError, UnsupportedType}
                \/ req[r].resp.err =
                     Err("BadRequestException",
                         "Upload failed: " \o C11_CauseMessage(r))
           /\ (req[r].pc = "done" /\ req[r].resp.state = "ok") =>
                LET b == req[r].resp.body IN
                /\ b.id \in 1..Len(docs)
                /\ hist[b.id].file = req[r].file
                /\ b = [id |-> b.id,
                        originalName |-> req[r].file.originalname,
                        mimeType |-> req[r].file.mimetype,
                        size |-> req[r].file.size,
                        createdAt |-> docs[b.id].createdAt]

\* One upload without a file has been refused by the route while another,
\* with a file, has returned the service's result for that file.
C16_Witness ==
  \E r, q \in Reqs :
    /\ req[r].op = "upload" /\ ~req[r].file.present
    /\ req[r].resp.err.message = "No file uploaded"
    /\ req[q].op = "upload" /\ req[q].file.present
    /\ req[q].resp.state = "ok"
    /\ req[q].resp.body.originalName = "test.pdf"

C18_FirstObject(content) ==
  LET objects ==
        {p \in (1..Len(content)) \X (1..Len(content)) :
           /\ p[1] < p[2]
           /\ content[p[1]] = P("{")
           /\ content[p[2]] = P("}")
           /\ JSONParse(SubSeq(content, p[1], p[2])).ok} IN
  IF objects = {} THEN <<>>
  ELSE LET p == CHOOSE a \in objects :
                  \A b \in objects :
                    a[1] < b[1] \/ (a[1] = b[1] /\ a[2] <= b[2]) IN
       SubSeq(content, p[1], p[2])

\* C18: for every analyze request the endpoint has answered, when the
\* message content holds a substring that is a brace-delimited JSON object
\* the adapter's result is the parse of the first such object, and only when
\* it holds none has the request failed with a parse error.
C18_FirstObjectParsed ==
  \A r \in Reqs :
    (req[r].op = "analyze" /\ req[r].reply.ok) =>
      LET first == C18_FirstObject(req[r].reply.content) IN
      IF first = <<>>
      THEN /\ req[r].pc = "done"
           /\ req[r].resp.err.message =
                "Analysis failed: Failed to analyze document with LLM: Failed to parse LLM response: No JSON found in response"
      ELSE /\ req[r].analysis.ok
           /\ req[r].analysis = parseAnalysisResponse(first)

\* C19: for every analyze request whose reply held a parsable JSON object,
\* the adapter has returned a result, whatever fields the object has; a
\* field the object lacks is 'No summary available', 'unknown' or the empty
\* mapping in the result; and the result's summary and docType are never
\* missing, null or '' and its attributes never missing or null.
C19_DefaultsForMissingFields ==
  \A r \in Reqs :
    (req[r].op = "analyze" /\ req[r].reply.ok
       /\ JSONParse(JsonMatch(req[r].reply.content)).ok) =>
      LET parsed == JSONParse(JsonMatch(req[r].reply.content)).val
          result == req[r].analysis IN
      /\ result.ok
      /\ GetProp(parsed, "summary") = Undefined =>
           result.summary = Str("No summary available")
      /\ GetProp(parsed, "docType") = Undefined =>
           result.docType = Str("unknown")
      /\ GetProp(parsed, "attributes") = Undefined =>
           result.attributes = Obj(<<>>)
      /\ result.summary \notin {Undefined, JsNull, Str("")}
      /\ result.docType \notin {Undefined, JsNull, Str("")}
      /\ result.attributes \notin {Undefined, JsNull}

\* The reply {} has been analysed: the result, and the row written from it,
\* hold the three placeholders.
C19_Witness ==
  \E r \in Reqs :
    /\ req[r].op = "analyze" /\ req[r].reply.ok
    /\ req[r].reply.content = <<P("{"), P("}")>>
    /\ req[r].resp.state = "ok"
    /\ req[r].resp.body.summary = Str("No summary available")
    /\ req[r].resp.body.docType = Str("unknown")
    /\ req[r].resp.body.attributes = Obj(<<>>)
    /\ docs[req[r].id].summary = Str("No summary available")

\* C20: after every step, the calls an upload request has made are the
\* storage upload, the text extraction and the Document create in that
\* order, the extraction is called only once the object is stored and the
\* create only once the text is extracted; and a step that adds a Document
\* row is the create of a request that has stored its object and extracted
\* its text, the new row holding exactly that request's key and text.
C20_UploadOrder ==
  [][/\ \A r \in Reqs :
          req'[r].op = "upload" =>
            LET q == req'[r]
                n == Len(q.calls) IN
            /\ q.calls = SubSeq(<<"s3.uploadFile",
                                  "textExtraction.extractText",
                                  "prisma.document.create">>, 1, n)
            /\ n >= 2 => \E o \in store' : o.key = q.key
            /\ n = 3 => /\ q.file.buffer \in {"blank", "text"}
                        /\ q.text = IF q.file.buffer = "text"
                                    THEN Chars(<<"h", "i">>) ELSE Chars(<<>>)
     /\ Len(docs') # Len(docs) =>
          \E r \in Reqs :
            /\ req[r].pc = "create"
            /\ Len(req[r].calls) = 3
            /\ \E o \in store : o.key = req[r].key
            /\ docs'[Len(docs')].s3Key = req[r].key
            /\ docs'[Len(docs')].extractedText = req[r].text]_vars

\* An upload has ended after its three calls, and its row holds the key of
\* its stored object and the text extracted from its file.
C20_Witness ==
  \E r \in Reqs :
    /\ req[r].op = "upload" /\ req[r].resp.state = "ok"
    /\ req[r].calls = <<"s3.uploadFile", "textExtraction.extractText",
                        "prisma.document.create">>
    /\ docs[req[r].resp.body.id].s3Key = req[r].key
    /\ docs[req[r].resp.body.id].extractedText = Chars(<<"h", "i">>)
    /\ \E o \in store : o.key = req[r].key /\ o.body = "text"

(***************************************************************************)
(* Properties of concurrent requests.                                      *)
(***************************************************************************)
\* C21: whatever the order of the steps of the analyze requests in
\* progress, a step that changes a Document is the update of one analyze
\* request for that row and leaves the row with the summary, the docType
\* and the serialized attributes of that one request's analysis, all three,
\* and that request returns the summary, docType and attributes of its own
\* analysis; so after every step an analysed row holds the whole triple of
\* the update applied last.
C21_LastWriteWins ==
  [][/\ \A i \in 1..Len(docs) :
          docs'[i] # docs[i] =>
            \E r \in Reqs :
              /\ req[r].op = "analyze" /\ req[r].pc = "update"
              /\ req[r].id = i
              /\ docs'[i].summary = req[r].analysis.summary
              /\ docs'[i].docType = req[r].analysis.docType
              /\ docs'[i].metadata.v = JSONStringify(req[r].analysis.attributes)
              /\ req'[r].resp.state = "ok"
              /\ req'[r].resp.body =
                   [id |-> i, summary |-> req[r].analysis.summary,
                    docType |-> req[r].analysis.docType,
                    attributes |-> req[r].analysis.attributes]
     /\ \A i \in 1..Len(docs') :
          hist'[i].analyses > 0 =>
            LET a == hist'[i].last IN
            /\ a.ok
            /\ docs'[i].summary = a.summary
            /\ docs'[i].docType = a.docType
            /\ docs'[i].metadata.v = JSONStringify(a.attributes)]_vars

\* Two analyses of the same document ran at the same time and gave
\* different results; both have returned their own result, and the row
\* holds all three fields of one of them and none of the other.
C21_Witness ==
  /\ req[1].op = "analyze" /\ req[2].op = "analyze"
  /\ req[1].id = req[2].id
  /\ req[1].resp.state = "ok" /\ req[2].resp.state = "ok"
  /\ req[1].resp.body.summary = Str("An invoice")
  /\ req[1].resp.body.docType = Str("invoice")
  /\ req[2].resp.body.summary = Str("A letter")
  /\ req[2].resp.body.docType = Str("letter")
  /\ hist[req[1].id].analyses = 2
  /\ docs[req[1].id].summary = Str("An invoice")
  /\ docs[req[1].id].docType = Str("invoice")
  /\ docs[req[1].id].metadata.v = JSONStringify(req[1].analysis.attributes)
  /\ docs[req[1].id].metadata.v # JSONStringify(req[2].analysis.attributes)

(***************************************************************************)
(* Frame properties.                                                       *)
(***************************************************************************)
\* The columns of a row that are set at its creation.
C22_CreationFields(row) ==
  <<row.id, row.originalName, row.mimeType, row.size, row.s3Key,
    row.extractedText, row.createdAt>>

\* C22: every step of an analyze request, whether the request goes on,
\* fails or succeeds, leaves id, originalName, mimeType, size, s3Key,
\* extractedText and createdAt of every Document as they were, and the step
\* of a get request leaves every Document as it was in every field.
C22_AnalyzeAndGetFrame ==
  [][\A r \in Reqs :
       /\ (req'[r] # req[r] /\ "analyze" \in {req[r].op, req'[r].op}) =>
            /\ Len(docs') = Len(docs)
            /\ \A i \in 1..Len(docs) :
                 C22_CreationFields(docs'[i]) = C22_CreationFields(docs[i])
       /\ (req'[r] # req[r] /\ "get" \in {req[r].op, req'[r].op}) =>
            docs' = docs]_vars

\* A document has been analysed and read, and still has the name, type,
\* size, key, text and creation time it was created with.
C22_Witness ==
  /\ Len(docs) = 1
  /\ hist[1].analyses = 1
  /\ docs[1].summary # JsNull
  /\ docs[1].originalName = hist[1].file.originalname
  /\ docs[1].mimeType = hist[1].file.mimetype
  /\ docs[1].size = hist[1].file.size
  /\ docs[1].extractedText = Chars(<<"h", "i">>)
  /\ docs[1].createdAt = 1
  /\ docs[1].updatedAt = 2
  /\ \E o \in store : o.key = docs[1].s3Key
  /\ \E r \in Reqs : /\ req[r].op = "get" /\ req[r].id = 1
                     /\ req[r].resp.state = "ok"
                     /\ req[r].resp.body.summary = docs[1].summary

(***************************************************************************)
(* Properties of the prompt.                                               *)
(***************************************************************************)
\* C23: for every analyze request that found its row, the adapter has been
\* called, whatever the length of the text, and the document text in the
\* prompt is the extracted text itself when that has at most 8,000
\* characters and its first 8,000 characters when it has more.
C23_PromptIsPrefix ==
  \A r \in Reqs :
    (req[r].op = "analyze" /\ req[r].found = "row") =>
      LET text == docs[req[r].id].extractedText.v
          sent == req[r].prompt IN
      /\ Len(req[r].calls) >= 2
      /\ req[r].calls[2] = "openRouter.analyzeDocument"
      /\ Len(text) <= 8000 => sent = text
      /\ Len(text) > 8000 =>
           /\ Len(sent) = 8000
           /\ \A i \in 1..8000 : sent[i] = text[i]

\* A text of 8,001 characters has been analysed with success, its first
\* 8,000 characters in the prompt and its last one left out.
C23_Witness ==
  \E r \in Reqs :
    /\ req[r].op = "analyze" /\ req[r].resp.state = "ok"
    /\ Len(docs[req[r].id].extractedText.v) = 8001
    /\ Len(req[r].prompt) = 8000
    /\ req[r].prompt[8000] = docs[req[r].id].extractedText.v[8000]
    /\ req[r].prompt[1] = docs[req[r].id].extractedText.v[1]

(***************************************************************************)
(* Properties of the storage keys.                                         *)
(***************************************************************************)
\* The upload requests that have drawn a key.
C24_Keyed == {r \in Reqs : req[r].op = "upload" /\ req[r].key # NoKey}

\* C24: every key an upload has drawn is a token drawn for it alone with
\* the file's original name; no two uploads in progress, no upload in
\* progress and Document of another upload, and no two Documents have the
\* same key; no two stored objects have the same key, and an upload about
\* to store its object finds no object under its key.
C24_FreshKeys ==
  /\ \A r \in C24_Keyed :
       /\ req[r].key.name = req[r].file.originalname
       /\ req[r].key.token \in 1..uuids
       /\ \A q \in C24_Keyed : q # r => req[q].key # req[r].key
       /\ req[r].pc = "s3" => \A o \in store : o.key # req[r].key
       /\ \A i \in 1..Len(docs) :
            docs[i].s3Key = req[r].key =>
              (req[r].pc = "done" /\ req[r].resp.state = "ok"
                 /\ req[r].resp.body.id = i)
  /\ \A i, j \in 1..Len(docs) : i # j => docs[i].s3Key # docs[j].s3Key
  /\ \A o, p \in store : o.key = p.key => o = p

\* Two uploads of files with the same original name ran at the same time;
\* both have ended, with two keys, two objects and two Documents.
C24_Witness ==
  /\ req[1].op = "upload" /\ req[2].op = "upload"
  /\ req[1].resp.state = "ok" /\ req[2].resp.state = "ok"
  /\ req[1].file.originalname = req[2].file.originalname
  /\ req[1].key # req[2].key
  /\ Cardinality(store) = 2
  /\ Len(docs) = 2
  /\ {docs[1].s3Key, docs[2].s3Key} = {req[1].key, req[2].key}

(***************************************************************************)
(* Properties of the objects left behind.                                  *)
(***************************************************************************)
\* The stored objects no Document refers to.
C25_Orphans(objects, rows) ==
  {o \in objects : \A i \in 1..Len(rows) : rows[i].s3Key # o.key}

\* C25: the step in which the text extraction or the Document create of an
\* upload fails leaves the object the request stored in the store, with no
\* Document referring to it; no request ever calls deleteFile; and an object
\* that belongs to no Document and to no upload in progress stays in the
\* store, belonging to no Document, in every later state.
C25_ObjectsLeftBehind ==
  [][/\ \A r \in Reqs :
          /\ (req[r].op = "upload" /\ req[r].pc \in {"extract", "create"}
                /\ req'[r].resp.state = "error") =>
               /\ store' = store
               /\ \E o \in C25_Orphans(store', docs') : o.key = req[r].key
          /\ \A i \in 1..Len(req'[r].calls) :
               req'[r].calls[i] # "s3.deleteFile"
     /\ \A o \in C25_Orphans(store, docs) :
          (\A r \in Reqs : req[r].pc = "done" \/ req[r].key # o.key) =>
            o \in C25_Orphans(store', docs')]_vars

\* An upload has failed in the create after its object was stored: the
\* object is in the store and the table is empty.
C25_Witness ==
  /\ docs = <<>>
  /\ \E r \in Reqs :
       /\ req[r].op = "upload"
       /\ req[r].resp.err.message = "Upload failed: database unavailable"
       /\ \E o \in store : o.key = req[r].key

(***************************************************************************)
(* Properties of documents without text.                                   *)
(***************************************************************************)
\* C26: an upload of a file whose extractor yields no text is not failed by
\* the extraction, and the Document it creates has the empty string as its
\* extractedText and no summary, docType or metadata; every analyze request
\* whose lookup returns such a Document has ended with the no-text error;
\* and no step changes such a Document, so it stays unanalysed.
C26_NoTextForever ==
  [][/\ \A r \in Reqs :
          /\ (req'[r].op = "upload" /\ req'[r].file.buffer = "blank"
                /\ req'[r].file.present /\ req'[r].resp.state = "error") =>
               req'[r].resp.err.message
                 \in {"Upload failed: S3 upload error",
                      "Upload failed: database unavailable"}
          /\ (req'[r].op = "analyze" /\ req'[r].found = "row"
                /\ hist'[req'[r].id].file.buffer = "blank") =>
               /\ req'[r].pc = "done"
               /\ req'[r].resp.err.message =
                    "No extracted text found for this document"
     /\ \A i \in 1..Len(docs') :
          hist'[i].file.buffer = "blank" =>
            /\ docs'[i].extractedText = Chars(<<>>)
            /\ docs'[i].summary = JsNull
            /\ docs'[i].docType = JsNull
            /\ docs'[i].metadata = JsNull
            /\ i <= Len(docs) => docs'[i] = docs[i]]_vars

\* A DOCX without text was uploaded with success, and two analyses of its
\* Document have been refused with the no-text error; the Document has the
\* empty text and no analysis.
C26_Witness ==
  /\ Len(docs) = 1
  /\ hist[1].file.buffer = "blank"
  /\ docs[1].mimeType =
       "application/vnd.openxmlformats-officedocument.wordprocessingml.document"
  /\ docs[1].extractedText = Chars(<<>>)
  /\ docs[1].summary = JsNull
  /\ docs[1].updatedAt = docs[1].createdAt
  /\ \A r \in Reqs :
       /\ req[r].op = "analyze" /\ req[r].id = 1
       /\ req[r].resp.err.message = "No extracted text found for this document"

====
